---- MODULE Spec2Model ----
(***************************************************************************)
(* Model of downloader_cn.py: main() submits one download_one(item) call   *)
(* per input identifier to a ThreadPoolExecutor of THREADS_CN threads and  *)
(* tallies the returned status dictionaries as the futures complete.       *)
(*                                                                         *)
(* An identifier string is a sequence of one-character strings.  The file  *)
(* system is a function from artifact paths to file records; the clock is  *)
(* the integer now (seconds).                                              *)
(***************************************************************************)
EXTENDS Integers, Sequences, FiniteSets, TLC

\* ---------------------------------------------------------------- constants
THREADS_CN == 4
DATA_EXPIRY_SECONDS == 3600
MIN_VALID_SIZE == 1000
max_retries == 3

\* ------------------------------------------------------------------- bounds
\* longest input list of the pool runs (must exceed THREADS_CN)
MaxItems == 5
\* how many seconds the clock may advance during a run
MaxTick == 1
\* longest identifier string of the one-identifier runs
MaxLen == 3

\* --------------------------------------------------------- identifier strings
Moutai == <<"6", "&", "a">>
PingAn == <<"0", "&", "b">>
NoSep == <<"6", "a">>
AmpName == <<"6", "&", "a", "&", "b">>
UnderCode == <<"6", "_", "a", "&", "b">>
UnderName == <<"6", "&", "a", "_", "b">>

\* slip: split on every '&' and keep the first two parts
split1Truncated(s) ==
    IF {i \in 1..Len(s) : s[i] = "&"} = {} THEN <<s>>
    ELSE LET i == CHOOSE i \in 1..Len(s) : s[i] = "&" /\ \A j \in 1..(i - 1) : s[j] /= "&"
             later == {j \in 1..Len(s) : j > i /\ s[j] = "&"}
             e == IF later = {} THEN Len(s) + 1
                  ELSE CHOOSE j \in later : \A k \in later : j <= k
         IN <<SubSeq(s, 1, i - 1), SubSeq(s, i + 1, e - 1)>>

\* str.split('&', 1): the whole string when it holds no '&', otherwise the
\* text before the first '&' and all the text after it
AmpPositions(s) == {i \in 1..Len(s) : s[i] = "&"}

FirstAmp(s) == CHOOSE i \in AmpPositions(s) : \A j \in AmpPositions(s) : i <= j

split1(s) ==
    IF AmpPositions(s) = {} THEN <<s>>
    ELSE <<SubSeq(s, 1, FirstAmp(s) - 1), SubSeq(s, FirstAmp(s) + 1, Len(s))>>

\* the unpacking "code, name = ..." raises ValueError unless there are two parts
Unpacks(item) == Len(split1(item)) = 2

code_of(item) == split1(item)[1]

name_of(item) == split1(item)[2]

\* symbol = f"{code}.SS" if code.startswith('6') else f"{code}.SZ"
symbol_of(item) ==
    IF Len(code_of(item)) > 0 /\ code_of(item)[1] = "6"
    THEN code_of(item) \o <<".SS">>
    ELSE code_of(item) \o <<".SZ">>

\* out_path = f"{code}_{name}.csv" under DATA_DIR
out_path(item) == code_of(item) \o <<"_">> \o name_of(item) \o <<".csv">>

\* item.split('&')[0], the code reported by the outer exception handler
split_all_first(s) ==
    IF AmpPositions(s) = {} THEN s ELSE SubSeq(s, 1, FirstAmp(s) - 1)

\* ------------------------------------------------------------------- files
NoFile == [exists |-> FALSE, mtime |-> 0, size |-> 0, complete |-> TRUE, content |-> <<0, 0>>]

OldFile(m, sz) == [exists |-> TRUE, mtime |-> m, size |-> sz, complete |-> TRUE, content |-> <<0, 0>>]

\* the clock at the start of a run: an artifact written at time 0 has just
\* reached the expiry age
Now0 == DATA_EXPIRY_SECONDS

\* artifacts a run may find: none; age exactly 3600; age 3599 with 1000 bytes;
\* age 3599 with 1001 bytes; 10 minutes old with 5000 bytes
TenMinutesOld == OldFile(3000, 5000)

InitFile == {NoFile, OldFile(0, 1001), OldFile(1, 1000), OldFile(1, 1001), TenMinutesOld}

\* sizes of the CSV text of a non-empty table
RowSizes == {1000, 1002}

\* bytes on disk when to_csv fails part-way through a table of sz bytes
PartialSizes(sz) == {p \in {0, 1001} : p < sz}

\* slip: the age comparison the wrong way round
AgeOkFlipped(f, t) == t - f.mtime > DATA_EXPIRY_SECONDS

\* slip: an artifact of exactly the expiry age accepted
AgeOkInclusive(f, t) == t - f.mtime <= DATA_EXPIRY_SECONDS

\* slip: the size threshold ten times too large
SizeOkLarge(f) == f.size > 10 * MIN_VALID_SIZE

\* slip: a file of exactly the minimum size accepted
SizeOkInclusive(f) == f.size >= MIN_VALID_SIZE

\* the freshness test of download_one, lines 91-93
AgeOk(f, t) == t - f.mtime < DATA_EXPIRY_SECONDS

SizeOk(f) == f.size > MIN_VALID_SIZE

\* ------------------------------------------------------------------- inputs
Tasks(its) == 1..Len(its)

Paths(its) == {out_path(its[i]) : i \in {j \in Tasks(its) : Unpacks(its[j])}}

\* inputs with at most one well-formed identifier
SmallInputs == { <<>>, <<Moutai>>, <<NoSep>>, <<AmpName>>, <<NoSep, PingAn>> }

\* the same identifier twice
TwiceInput == <<Moutai, Moutai>>

\* two identifiers that derive the same artifact path
SamePathInput == <<UnderCode, UnderName>>

\* two symbols
TwoInput == <<Moutai, PingAn>>

PoolItem(i) == IF i % 2 = 0 THEN NoSep ELSE <<"0", "&", "a">> \o [j \in 1..(i \div 2) |-> "a"]

PoolInputs == {[i \in 1..n |-> PoolItem(i)] : n \in (THREADS_CN + 1)..MaxItems}

RunsOf(l, fileset) == {[items |-> l, files |-> f] : f \in [Paths(l) -> fileset]}

\* the small inputs start from any artifact; of two symbols the second has an
\* artifact ten minutes old; two identifiers of one path start with no
\* artifact or one ten minutes old; the long inputs of the pool runs and the
\* identifier given twice find every artifact ten minutes old
Runs ==
    UNION ({RunsOf(l, InitFile) : l \in SmallInputs}
           \cup {{[items |-> TwoInput,
                   files |-> [q \in Paths(TwoInput) |->
                                IF q = out_path(PingAn) THEN TenMinutesOld ELSE f]]
                     : f \in InitFile}}
           \cup {RunsOf(SamePathInput, {NoFile, TenMinutesOld})}
           \cup {RunsOf(l, {TenMinutesOld}) : l \in PoolInputs \cup {TwiceInput}})

VARIABLES
    items,          \* the list returned by get_cn_list()
    prev,           \* what each call returned in the previous run of main()
    files,          \* the artifacts under DATA_DIR, by path
    now,            \* time.time()
    mpc,            \* where main() is
    submitted,      \* how many items main() has submitted
    queue,          \* the executor's work queue (task = position in items)
    worker,         \* the task each pool thread is running, 0 when idle
    pc,             \* where each download_one call is
    attempt,        \* the loop variable of each call
    hist_size,      \* size of the CSV of the table a call is about to write
    result,         \* the dictionary each call returned
    ev,             \* what each call has done so far (counts)
    collected,      \* the futures as_completed has yielded
    stats,          \* main()'s tally
    download_stats  \* main()'s return value

vars == <<items, prev, files, now, mpc, submitted, queue, worker, pc, attempt,
          hist_size, result, ev, collected, stats, download_stats>>

NoResult == [status |-> "none", code |-> <<>>]

\* of the previous run: the tag a call returned, whether all its history()
\* calls returned no rows, and the size of its artifact when the run ended
NoPrev == [status |-> "none", only_empty |-> FALSE, size |-> 0]

\* jitter, backoff: sleeps; fetch: history() calls; only_raised: no history()
\* call has returned yet; write: changes made to the artifact; returns:
\* results returned; only_empty: every history() call so far returned no rows;
\* last: how the latest attempt ended
NoEvents ==
    [jitter |-> 0, fetch |-> 0, only_raised |-> TRUE, backoff |-> 0, write |-> 0,
     returns |-> 0, only_empty |-> TRUE, last |-> "none"]

NoStats == [total |-> -1, success |-> -1, fail |-> -1]

StatusTags == {"success", "exists", "empty", "error"}

InitRun(r) ==
    /\ items = r.items
    /\ prev = [t \in Tasks(r.items) |-> NoPrev]
    /\ files = r.files
    /\ now = Now0
    /\ mpc = "submit"
    /\ submitted = 0
    /\ queue = <<>>
    /\ worker = [w \in 1..THREADS_CN |-> 0]
    /\ pc = [t \in Tasks(r.items) |-> "new"]
    /\ attempt = [t \in Tasks(r.items) |-> 0]
    /\ hist_size = [t \in Tasks(r.items) |-> 0]
    /\ result = [t \in Tasks(r.items) |-> NoResult]
    /\ ev = [t \in Tasks(r.items) |-> NoEvents]
    /\ collected = {}
    /\ stats = [s \in StatusTags |-> 0]
    /\ download_stats = NoStats

Init == \E r \in Runs : InitRun(r)

\* ------------------------------------------------------------------ main()
\* executor.submit(download_one, it), one item after another
Submit ==
    /\ mpc = "submit"
    /\ submitted < Len(items)
    /\ submitted' = submitted + 1
    /\ queue' = Append(queue, submitted + 1)
    /\ pc' = [pc EXCEPT ![submitted + 1] = "queued"]
    /\ UNCHANGED <<items, prev, files, now, mpc, worker, attempt, hist_size, result,
                   ev, collected, stats, download_stats>>

\* the dict comprehension is exhausted; main enters the as_completed loop
SubmitDone ==
    /\ mpc = "submit"
    /\ submitted = Len(items)
    /\ mpc' = "collect"
    /\ UNCHANGED <<items, prev, files, now, submitted, queue, worker, pc, attempt,
                   hist_size, result, ev, collected, stats, download_stats>>

\* slip: the counter set instead of incremented
CollectOverwrites(t) ==
    /\ mpc = "collect"
    /\ pc[t] = "done"
    /\ t \notin collected
    /\ collected' = collected \cup {t}
    /\ stats' = [stats EXCEPT ![result[t].status] = 1]
    /\ UNCHANGED <<items, prev, files, now, mpc, submitted, queue, worker, pc,
                   attempt, hist_size, result, ev, download_stats>>

\* one iteration of "for f in as_completed(futures)"
Collect(t) ==
    /\ mpc = "collect"
    /\ pc[t] = "done"
    /\ t \notin collected
    /\ collected' = collected \cup {t}
    /\ stats' = [stats EXCEPT ![result[t].status] = @ + 1]
    /\ UNCHANGED <<items, prev, files, now, mpc, submitted, queue, worker, pc,
                   attempt, hist_size, result, ev, download_stats>>

\* slip: the empty results left out of the failures
ReportErrorsOnly ==
    /\ mpc = "collect"
    /\ collected = Tasks(items)
    /\ mpc' = "returned"
    /\ download_stats' = [total |-> Len(items),
                          success |-> stats["success"] + stats["exists"],
                          fail |-> stats["error"]]
    /\ UNCHANGED <<items, prev, files, now, submitted, queue, worker, pc, attempt,
                   hist_size, result, ev, collected, stats>>

\* the loop ends, the executor shuts down, main builds and returns the report
Report ==
    /\ mpc = "collect"
    /\ collected = Tasks(items)
    /\ mpc' = "returned"
    /\ download_stats' = [total |-> Len(items),
                          success |-> stats["success"] + stats["exists"],
                          fail |-> stats["error"] + stats["empty"]]
    /\ UNCHANGED <<items, prev, files, now, submitted, queue, worker, pc, attempt,
                   hist_size, result, ev, collected, stats>>

\* ------------------------------------------------------------ the executor
\* slip: every pool thread taken to be idle
AllWorkers == 1..THREADS_CN

IdleWorkers == {w \in 1..THREADS_CN : worker[w] = 0}

\* an idle pool thread takes the oldest work item and calls download_one; the
\* threads are interchangeable, so the item goes to the idle thread with the
\* smallest number
Start(w) ==
    /\ w \in IdleWorkers
    /\ \A v \in IdleWorkers : w <= v
    /\ queue /= <<>>
    /\ worker' = [worker EXCEPT ![w] = Head(queue)]
    /\ queue' = Tail(queue)
    /\ pc' = [pc EXCEPT ![Head(queue)] = "split"]
    /\ UNCHANGED <<items, prev, files, now, mpc, submitted, attempt, hist_size,
                   result, ev, collected, stats, download_stats>>

WorkerOf(t) == CHOOSE w \in 1..THREADS_CN : worker[w] = t

Running(t) == \E w \in 1..THREADS_CN : worker[w] = t

\* slip: the pool thread is not released when the call returns
ReturnKeepsThread(t, tag, c) ==
    /\ pc' = [pc EXCEPT ![t] = "done"]
    /\ result' = [result EXCEPT ![t] = [status |-> tag, code |-> c]]
    /\ worker' = worker

\* download_one returns: the future is done and the thread is idle again
Return(t, tag, c) ==
    /\ pc' = [pc EXCEPT ![t] = "done"]
    /\ result' = [result EXCEPT ![t] = [status |-> tag, code |-> c]]
    /\ worker' = [worker EXCEPT ![WorkerOf(t)] = 0]

Bump(t, what) == [ev EXCEPT ![t][what] = @ + 1]

\* ------------------------------------------------------------ download_one
\* slip: no outer handler, the ValueError escapes download_one
SplitEscapes(t) ==
    /\ pc[t] = "split"
    /\ IF Unpacks(items[t])
       THEN /\ pc' = [pc EXCEPT ![t] = "check"]
            /\ UNCHANGED worker
       ELSE /\ pc' = [pc EXCEPT ![t] = "done"]
            /\ worker' = [worker EXCEPT ![WorkerOf(t)] = 0]
    /\ UNCHANGED <<items, prev, files, now, mpc, submitted, queue, attempt, result,
                   ev, hist_size, collected, stats, download_stats>>

\* slip: an identifier without '&' is sent into the retry loop
SplitRetriesBad(t) ==
    /\ pc[t] = "split"
    /\ IF Unpacks(items[t])
       THEN pc' = [pc EXCEPT ![t] = "check"]
       ELSE pc' = [pc EXCEPT ![t] = "jitter"]
    /\ UNCHANGED <<items, prev, files, now, mpc, submitted, queue, attempt, result,
                   worker, ev, hist_size, collected, stats, download_stats>>

\* code, name = item.split('&', 1); a string without '&' raises ValueError,
\* which the outer handler turns into an error result
Split(t) ==
    /\ pc[t] = "split"
    /\ IF Unpacks(items[t])
       THEN /\ pc' = [pc EXCEPT ![t] = "check"]
            /\ UNCHANGED <<result, worker, ev>>
       ELSE /\ Return(t, "error", split_all_first(items[t]))
            /\ ev' = Bump(t, "returns")
    /\ UNCHANGED <<items, prev, files, now, mpc, submitted, queue, attempt,
                   hist_size, collected, stats, download_stats>>

\* os.path.exists(out_path) and file_age < DATA_EXPIRY_SECONDS
CheckAge(t) ==
    /\ pc[t] = "check"
    /\ LET f == files[out_path(items[t])] IN
       IF f.exists /\ AgeOk(f, now)
       THEN pc' = [pc EXCEPT ![t] = "size"]
       ELSE pc' = [pc EXCEPT ![t] = "jitter"]
    /\ UNCHANGED <<items, prev, files, now, mpc, submitted, queue, worker, attempt,
                   hist_size, result, ev, collected, stats, download_stats>>

\* os.path.getsize(out_path) > 1000
CheckSize(t) ==
    /\ pc[t] = "size"
    /\ LET f == files[out_path(items[t])] IN
       IF SizeOk(f)
       THEN /\ Return(t, "exists", code_of(items[t]))
            /\ ev' = Bump(t, "returns")
       ELSE /\ pc' = [pc EXCEPT ![t] = "jitter"]
            /\ UNCHANGED <<result, worker, ev>>
    /\ UNCHANGED <<items, prev, files, now, mpc, submitted, queue, attempt,
                   hist_size, collected, stats, download_stats>>

\* time.sleep(random.uniform(0.7, 1.5))
Jitter(t) ==
    /\ pc[t] = "jitter"
    /\ pc' = [pc EXCEPT ![t] = "fetch"]
    /\ ev' = Bump(t, "jitter")
    /\ UNCHANGED <<items, prev, files, now, mpc, submitted, queue, worker, attempt,
                   hist_size, result, collected, stats, download_stats>>

\* slip: the last attempt recognised one iteration early
LastAttemptEarly(t) == attempt[t] = max_retries - 2

LastAttempt(t) == attempt[t] = max_retries - 1

\* the end of one iteration of "for attempt in range(max_retries)": the next
\* iteration, or the return after the loop (line 124) once the range is used up
NextIteration(t, e) ==
    IF attempt[t] + 1 < max_retries
    THEN /\ pc' = [pc EXCEPT ![t] = "jitter"]
         /\ attempt' = [attempt EXCEPT ![t] = @ + 1]
         /\ ev' = e
         /\ UNCHANGED <<result, worker>>
    ELSE /\ Return(t, "error", code_of(items[t]))
         /\ ev' = [e EXCEPT ![t]["returns"] = @ + 1]
         /\ UNCHANGED attempt

\* slip: the handler sleeps without looking at the attempt number
RaisedAlwaysSleeps(t, e) ==
    /\ pc' = [pc EXCEPT ![t] = "backoff"]
    /\ ev' = e
    /\ UNCHANGED <<result, worker>>

\* the inner handler, "except Exception", of an attempt; e is the tally of
\* what the call has done up to the exception
Raised(t, e) ==
    IF LastAttempt(t)
    THEN /\ Return(t, "error", code_of(items[t]))
         /\ ev' = [e EXCEPT ![t]["returns"] = @ + 1]
    ELSE /\ pc' = [pc EXCEPT ![t] = "backoff"]
         /\ ev' = e
         /\ UNCHANGED <<result, worker>>

\* yf.Ticker(symbol).history(...) raises
FetchRaises(t) ==
    /\ pc[t] = "fetch"
    /\ Raised(t, [ev EXCEPT ![t]["fetch"] = @ + 1, ![t]["only_empty"] = FALSE,
                            ![t]["last"] = "raised"])
    /\ UNCHANGED <<items, prev, files, now, mpc, submitted, queue, attempt,
                   hist_size, collected, stats, download_stats>>

\* slip: the last empty result is written out as an artifact
FetchNoRowsCaches(t) ==
    /\ pc[t] = "fetch"
    /\ IF LastAttempt(t)
       THEN /\ Return(t, "empty", code_of(items[t]))
            /\ ev' = [ev EXCEPT ![t]["fetch"] = @ + 1, ![t]["only_raised"] = FALSE,
                                ![t]["returns"] = @ + 1, ![t]["last"] = "norows",
                                ![t]["write"] = @ + 1]
            /\ files' = [files EXCEPT ![out_path(items[t])] =
                            [exists |-> TRUE, mtime |-> now, size |-> 1001,
                             complete |-> TRUE, content |-> <<t, attempt[t] + 1>>]]
            /\ UNCHANGED attempt
       ELSE /\ NextIteration(t, [ev EXCEPT ![t]["fetch"] = @ + 1, ![t]["only_raised"] = FALSE,
                                           ![t]["last"] = "norows"])
            /\ UNCHANGED files
    /\ UNCHANGED <<items, prev, now, mpc, submitted, queue, hist_size,
                   collected, stats, download_stats>>

\* slip: an exception of an earlier attempt turns the last empty result
\* into an error
FetchNoRowsRemembers(t) ==
    /\ pc[t] = "fetch"
    /\ IF LastAttempt(t)
       THEN /\ Return(t, IF ev[t].backoff > 0 THEN "error" ELSE "empty", code_of(items[t]))
            /\ ev' = [ev EXCEPT ![t]["fetch"] = @ + 1, ![t]["only_raised"] = FALSE,
                                ![t]["returns"] = @ + 1, ![t]["last"] = "norows"]
            /\ UNCHANGED attempt
       ELSE NextIteration(t, [ev EXCEPT ![t]["fetch"] = @ + 1, ![t]["only_raised"] = FALSE,
                                        ![t]["last"] = "norows"])
    /\ UNCHANGED <<items, prev, files, now, mpc, submitted, queue, hist_size,
                   collected, stats, download_stats>>

\* slip: the backoff sleep also after an attempt that returned no rows
FetchNoRowsSleeps(t) ==
    /\ pc[t] = "fetch"
    /\ IF LastAttempt(t)
       THEN /\ Return(t, "empty", code_of(items[t]))
            /\ ev' = [ev EXCEPT ![t]["fetch"] = @ + 1, ![t]["only_raised"] = FALSE,
                                ![t]["returns"] = @ + 1, ![t]["last"] = "norows"]
       ELSE /\ pc' = [pc EXCEPT ![t] = "backoff"]
            /\ ev' = [ev EXCEPT ![t]["fetch"] = @ + 1, ![t]["only_raised"] = FALSE,
                                ![t]["last"] = "norows"]
            /\ UNCHANGED <<result, worker>>
    /\ UNCHANGED <<items, prev, files, now, mpc, submitted, queue, hist_size,
                   attempt, collected, stats, download_stats>>

\* history() returns None or an empty frame
FetchNoRows(t) ==
    /\ pc[t] = "fetch"
    /\ IF LastAttempt(t)
       THEN /\ Return(t, "empty", code_of(items[t]))
            /\ ev' = [ev EXCEPT ![t]["fetch"] = @ + 1, ![t]["only_raised"] = FALSE,
                                ![t]["returns"] = @ + 1, ![t]["last"] = "norows"]
            /\ UNCHANGED attempt
       ELSE NextIteration(t, [ev EXCEPT ![t]["fetch"] = @ + 1, ![t]["only_raised"] = FALSE,
                                        ![t]["last"] = "norows"])
    /\ UNCHANGED <<items, prev, files, now, mpc, submitted, queue, hist_size,
                   collected, stats, download_stats>>

\* history() returns a table with rows, whose CSV text takes sz bytes
FetchRows(t, sz) ==
    /\ pc[t] = "fetch"
    /\ pc' = [pc EXCEPT ![t] = "open"]
    /\ hist_size' = [hist_size EXCEPT ![t] = sz]
    /\ ev' = [ev EXCEPT ![t]["fetch"] = @ + 1, ![t]["only_raised"] = FALSE,
                        ![t]["only_empty"] = FALSE, ![t]["last"] = "rows"]
    /\ UNCHANGED <<items, prev, files, now, mpc, submitted, queue, worker, attempt,
                   result, collected, stats, download_stats>>

\* the column normalisation or the open of out_path raises: nothing written
OpenFails(t) ==
    /\ pc[t] = "open"
    /\ Raised(t, [ev EXCEPT ![t]["last"] = "raised"])
    /\ hist_size' = [hist_size EXCEPT ![t] = 0]
    /\ UNCHANGED <<items, prev, files, now, mpc, submitted, queue, attempt,
                   collected, stats, download_stats>>

\* to_csv opens out_path for writing, which truncates the file in place
OpenTruncates(t) ==
    /\ pc[t] = "open"
    /\ pc' = [pc EXCEPT ![t] = "body"]
    /\ files' = [files EXCEPT ![out_path(items[t])] =
                    [exists |-> TRUE, mtime |-> now, size |-> 0,
                     complete |-> FALSE, content |-> <<t, attempt[t] + 1>>]]
    /\ ev' = Bump(t, "write")
    /\ UNCHANGED <<items, prev, now, mpc, submitted, queue, worker, attempt,
                   hist_size, result, collected, stats, download_stats>>

\* the file after the handle that call t opened with mode "w" has written n
\* bytes: the handle writes from its own offset 0 and nothing truncates after
\* the open, so bytes that another handle wrote beyond n stay, and the file
\* is one whole table only when all n bytes of the table went in and nothing
\* is left behind them; a write of no bytes leaves the file as it is
Overwrite(f, t, n, all) ==
    IF n = 0 THEN f
    ELSE [exists |-> TRUE, mtime |-> now,
          size |-> IF f.size > n THEN f.size ELSE n,
          complete |-> all /\ f.size <= n,
          content |-> <<t, attempt[t] + 1>>]

\* slip: no return after the write, the loop goes on
WriteDoneGoesOn(t) ==
    /\ pc[t] = "body"
    /\ files' = [files EXCEPT ![out_path(items[t])] =
                    Overwrite(@, t, hist_size[t], TRUE)]
    /\ NextIteration(t, [ev EXCEPT ![t]["write"] = @ + 1, ![t]["last"] = "written"])
    /\ hist_size' = [hist_size EXCEPT ![t] = 0]
    /\ UNCHANGED <<items, prev, now, mpc, submitted, queue,
                   collected, stats, download_stats>>

\* to_csv writes the whole table from the start of the file and closes it;
\* download_one returns
WriteDone(t) ==
    /\ pc[t] = "body"
    /\ files' = [files EXCEPT ![out_path(items[t])] =
                    Overwrite(@, t, hist_size[t], TRUE)]
    /\ Return(t, "success", code_of(items[t]))
    /\ ev' = [ev EXCEPT ![t]["write"] = @ + 1, ![t]["returns"] = @ + 1,
                        ![t]["last"] = "written"]
    /\ hist_size' = [hist_size EXCEPT ![t] = 0]
    /\ UNCHANGED <<items, prev, now, mpc, submitted, queue, attempt,
                   collected, stats, download_stats>>

\* to_csv raises after p bytes (disk full, I/O error): the bytes stay on
\* disk, with whatever lay beyond them
WriteFails(t, p) ==
    /\ pc[t] = "body"
    /\ p \in PartialSizes(hist_size[t])
    /\ files' = [files EXCEPT ![out_path(items[t])] = Overwrite(@, t, p, FALSE)]
    /\ Raised(t, [ev EXCEPT ![t]["write"] = @ + 1, ![t]["last"] = "raised"])
    /\ hist_size' = [hist_size EXCEPT ![t] = 0]
    /\ UNCHANGED <<items, prev, now, mpc, submitted, queue, attempt,
                   collected, stats, download_stats>>

\* time.sleep(random.randint(5, 12)), then the next iteration of the loop
Backoff(t) ==
    /\ pc[t] = "backoff"
    /\ NextIteration(t, Bump(t, "backoff"))
    /\ UNCHANGED <<items, prev, files, now, mpc, submitted, queue,
                   hist_size, collected, stats, download_stats>>

\* ----------------------------------------------------------------- the clock
Tick ==
    /\ now < Now0 + MaxTick
    /\ mpc /= "returned"
    /\ now' = now + 1
    /\ UNCHANGED <<items, prev, files, mpc, submitted, queue, worker, pc, attempt,
                   hist_size, result, ev, collected, stats, download_stats>>

download_one(t) ==
    \/ Split(t)
    \/ CheckAge(t)
    \/ CheckSize(t)
    \/ Jitter(t)
    \/ FetchRaises(t)
    \/ FetchNoRows(t)
    \/ \E sz \in RowSizes : FetchRows(t, sz)
    \/ OpenFails(t)
    \/ OpenTruncates(t)
    \/ WriteDone(t)
    \/ \E p \in {0, 1001} : WriteFails(t, p)
    \/ Backoff(t)

Next ==
    \/ Submit
    \/ SubmitDone
    \/ \E t \in Tasks(items) : Collect(t)
    \/ Report
    \/ \E w \in 1..THREADS_CN : Start(w)
    \/ \E t \in Tasks(items) : download_one(t)
    \/ Tick

Spec == Init /\ [][Next]_vars

\* ------------------------------------------------------------- later runs
\* the program is started again (lines 160-161) on the same list, with the
\* artifacts the previous run left under DATA_DIR; content <<0, 0>> marks the
\* artifacts a run starts with
Rerun ==
    /\ mpc = "returned"
    /\ prev' = [t \in Tasks(items) |->
                  [status |-> result[t].status,
                   only_empty |-> ev[t].fetch >= 1 /\ ev[t].only_empty,
                   size |-> IF Unpacks(items[t]) THEN files[out_path(items[t])].size ELSE 0]]
    /\ files' = [q \in DOMAIN files |-> [files[q] EXCEPT !.content = <<0, 0>>]]
    /\ mpc' = "submit"
    /\ submitted' = 0
    /\ queue' = <<>>
    /\ pc' = [t \in Tasks(items) |-> "new"]
    /\ attempt' = [t \in Tasks(items) |-> 0]
    /\ hist_size' = [t \in Tasks(items) |-> 0]
    /\ result' = [t \in Tasks(items) |-> NoResult]
    /\ ev' = [t \in Tasks(items) |-> NoEvents]
    /\ collected' = {}
    /\ stats' = [tag \in StatusTags |-> 0]
    /\ download_stats' = NoStats
    /\ UNCHANGED <<items, now, worker>>

\* runs of the inputs with at most one well-formed identifier
InitSmall == \E r \in UNION {RunsOf(l, InitFile) : l \in SmallInputs} : InitRun(r)

NextRerun == Next \/ Rerun

RerunSpec == InitSmall /\ [][NextRerun]_vars

\* ------------------------------------------------------------- fair runs
\* main() keeps running, and so do the pool threads: every sleep and every
\* history() call returns or raises
MainStep == Submit \/ SubmitDone \/ Report \/ \E t \in Tasks(items) : Collect(t)

PoolStep ==
    \/ \E w \in 1..THREADS_CN : Start(w)
    \/ \E t \in Tasks(items) : download_one(t)

InitLive ==
    \E r \in UNION ({RunsOf(l, InitFile) : l \in SmallInputs}
                     \cup {RunsOf(l, {TenMinutesOld}) : l \in PoolInputs}) : InitRun(r)

LiveSpec == InitLive /\ [][Next]_vars /\ WF_vars(MainStep) /\ WF_vars(PoolStep)

\* ------------------------------------------------- runs of one identifier
\* every string over the alphabet up to the length bound, as a one-item list
\* with no artifact or one ten minutes old
Alphabet == {"6", "&", "a"}

Strings(n) == UNION {[1..k -> Alphabet] : k \in 0..n}

InitSplit == \E s \in Strings(MaxLen) : \E r \in RunsOf(<<s>>, {NoFile, TenMinutesOld}) : InitRun(r)

SplitSpec == InitSplit /\ [][Next]_vars

\* ------------------------------------------------------------------ helpers
HasAmp(item) == \E i \in 1..Len(item) : item[i] = "&"

Started(t) == pc[t] \notin {"new", "queued", "done"}

InLoop(t) == pc[t] \in {"jitter", "fetch", "open", "body", "backoff"}

InSection(t) == pc[t] \in {"check", "size", "jitter", "fetch", "open", "body", "backoff"}

PathOf(t) == out_path(items[t])

Tagged(S) == {t \in Tasks(items) : result[t].status \in S}

SharesPath(t) ==
    \E u \in Tasks(items) : u /= t /\ HasAmp(items[u]) /\ PathOf(u) = PathOf(t)

\* ------------------------------------------------------------------- claims
\* C1: when main returns, total is the number of input items, success the
\* number of results tagged success or exists, fail the number tagged error
\* or empty, and total = success + fail.
StatsPartition ==
    mpc = "returned" =>
        /\ download_stats.total = Len(items)
        /\ download_stats.success = Cardinality(Tagged({"success", "exists"}))
        /\ download_stats.fail = Cardinality(Tagged({"error", "empty"}))
        /\ download_stats.total = download_stats.success + download_stats.fail

StatsPartitionWitness ==
    /\ mpc = "returned"
    /\ download_stats = [total |-> 2, success |-> 1, fail |-> 1]
    /\ Tagged({"empty"}) /= {}

\* C2: every position of the input yields exactly one result, never two, with
\* a tag among success, exists, empty, error; none before the call is over,
\* and all of them by the time main returns.
OneOutcomePerItem ==
    \A t \in Tasks(items) :
        /\ ev[t].returns <= 1
        /\ pc[t] = "done" => ev[t].returns = 1 /\ result[t].status \in StatusTags
        /\ pc[t] /= "done" => ev[t].returns = 0 /\ result[t] = NoResult
        /\ mpc = "returned" => pc[t] = "done"

OneOutcomePerItemWitness ==
    /\ mpc = "returned"
    /\ \E t, u \in Tasks(items) :
          /\ result[t].status = "exists"
          /\ result[u].status = "error" /\ ev[u].write > 0

\* C3: a call that finds its artifact present and younger than 3600 seconds,
\* and then finds it larger than 1000 bytes, returns exists for the symbol's
\* code; it has slept, fetched and written nothing, its steps leave every
\* file as it was, and an artifact no other item shares is at the end of the
\* run the file the run started with.
FreshHitStep(t) ==
    LET f == files[PathOf(t)] IN
    /\ (pc[t] = "check" /\ pc'[t] /= "check"
          /\ f.exists /\ now - f.mtime < DATA_EXPIRY_SECONDS)
       => (pc'[t] = "size" /\ files' = files /\ ev'[t] = NoEvents)
    /\ (pc[t] = "size" /\ pc'[t] /= "size" /\ f.size > MIN_VALID_SIZE)
       => /\ result'[t] = [status |-> "exists", code |-> code_of(items[t])]
          /\ files' = files
          /\ ev'[t] = [NoEvents EXCEPT !["returns"] = 1]

FreshHitUntouched ==
    /\ [][\A t \in Tasks(items) : HasAmp(items[t]) => FreshHitStep(t)]_vars
    /\ [](\A t \in Tasks(items) :
            result[t].status = "exists" =>
               /\ ev[t] = [NoEvents EXCEPT !["returns"] = 1]
               /\ ~SharesPath(t) => files[PathOf(t)].content = <<0, 0>>)

FreshHitWitness ==
    /\ mpc = "returned"
    /\ \E t \in Tasks(items) :
          /\ result[t].status = "exists"
          /\ ~SharesPath(t)
          /\ files[PathOf(t)] = TenMinutesOld

\* C4: a call for a well-formed symbol that finds its artifact absent, or of
\* age 3600 seconds or more, or of 1000 bytes or fewer, enters the retry
\* loop, and a call in the retry loop ends only after a fetch attempt and
\* never with exists.
StaleStep(t) ==
    LET f == files[PathOf(t)] IN
    /\ (pc[t] = "check" /\ pc'[t] /= "check"
          /\ (~f.exists \/ now - f.mtime >= DATA_EXPIRY_SECONDS))
       => (pc'[t] = "jitter" /\ result'[t] = NoResult)
    /\ (pc[t] = "size" /\ pc'[t] /= "size" /\ f.size <= MIN_VALID_SIZE)
       => (pc'[t] = "jitter" /\ result'[t] = NoResult)
    /\ InLoop(t)
       => \/ InLoop(t)'
          \/ /\ pc'[t] = "done"
             /\ result'[t].status \in {"success", "empty", "error"}
             /\ ev'[t].fetch >= 1

StaleFetches ==
    [][\A t \in Tasks(items) : HasAmp(items[t]) => StaleStep(t)]_vars

\* a call that found an artifact of age exactly 3600 has fetched three times
StaleFetchesWitness ==
    \E t \in Tasks(items) :
        /\ HasAmp(items[t])
        /\ pc[t] = "done"
        /\ files[PathOf(t)] = OldFile(0, 1001)
        /\ now = Now0
        /\ ev[t].fetch = max_retries
        /\ result[t].status = "empty"

\* C5: whenever no call is in the middle of writing an artifact, the file at
\* the artifact's path is absent or complete, so a failed write leaves no
\* partial file behind.
NoPartialArtifact ==
    \A p \in DOMAIN files :
        (files[p].exists /\ ~files[p].complete)
            => \E t \in Tasks(items) : pc[t] = "body" /\ PathOf(t) = p

\* C6: no two calls are at the same time between the freshness check and the
\* end of the write for the same artifact path.
OneWorkerPerArtifact ==
    \A t, u \in Tasks(items) :
        (t /= u /\ InSection(t) /\ InSection(u)) => PathOf(t) /= PathOf(u)

\* C7: a call sleeps a backoff only after its first or second fetch attempt
\* and goes on to the next attempt; it sleeps at most max_retries - 1 = 2
\* backoffs, and when it is over it has slept fewer backoffs than it made
\* fetch attempts.
BackoffStep(t) ==
    ev'[t].backoff /= ev[t].backoff =>
        /\ ev'[t].backoff = ev[t].backoff + 1
        /\ ev[t].fetch \in 1..(max_retries - 1)
        /\ ev'[t].fetch = ev[t].fetch
        /\ pc'[t] = "jitter"

NoTrailingBackoff ==
    /\ [][\A t \in Tasks(items) : BackoffStep(t)]_vars
    /\ [](\A t \in Tasks(items) :
            /\ ev[t].backoff <= max_retries - 1
            /\ ev[t].fetch <= max_retries
            /\ ev[t].fetch = max_retries => pc[t] \notin {"backoff", "jitter"}
            /\ (pc[t] = "done" /\ ev[t].fetch > 0) => ev[t].backoff < ev[t].fetch)

NoTrailingBackoffWitness ==
    \E t \in Tasks(items) :
        pc[t] = "done" /\ ev[t].fetch = max_retries /\ ev[t].backoff = max_retries - 1

\* C8: while every fetch attempt of a call has raised, the call has written
\* nothing and has slept one backoff after each attempt but the third; when
\* it is over it has made exactly 3 attempts and 2 backoff sleeps and its
\* result is error with the symbol's code.
AllRaised(t) == ev[t].fetch >= 1 /\ ev[t].only_raised

AlwaysRaisingGivesError ==
    \A t \in Tasks(items) :
        AllRaised(t) =>
            /\ ev[t].write = 0
            /\ pc[t] \in {"backoff", "jitter", "fetch", "done"}
            /\ pc[t] = "backoff" => ev[t].backoff = ev[t].fetch - 1
            /\ pc[t] \in {"jitter", "fetch"} => ev[t].backoff = ev[t].fetch
            /\ pc[t] = "done" =>
                  /\ ev[t].fetch = 3
                  /\ ev[t].backoff = 2
                  /\ ev[t].jitter = 3
                  /\ result[t] = [status |-> "error", code |-> code_of(items[t])]

AlwaysRaisingWitness ==
    \E t \in Tasks(items) :
        /\ AllRaised(t)
        /\ pc[t] = "done"
        /\ files[PathOf(t)] = NoFile
        /\ mpc = "returned"

\* C9: a call for an identifier without '&' is over in one step with the
\* result error: it never checks, sleeps, fetches or writes, its step changes
\* no file, and main still returns statistics in which every item has its
\* result and the malformed ones are among the failures.
Malformed == {t \in Tasks(items) : ~HasAmp(items[t])}

MalformedGivesError ==
    /\ [][\A t \in Malformed :
            (pc[t] = "split" /\ pc'[t] /= "split")
               => (pc'[t] = "done" /\ files' = files /\ now' = now)]_vars
    /\ [](\A t \in Malformed :
            /\ pc[t] \in {"new", "queued", "split", "done"}
            /\ ev[t].jitter = 0 /\ ev[t].fetch = 0 /\ ev[t].backoff = 0 /\ ev[t].write = 0
            /\ pc[t] = "done" =>
                  /\ result[t] = [status |-> "error", code |-> items[t]]
                  /\ ev[t].returns = 1
            /\ mpc = "returned" =>
                  /\ \A u \in Tasks(items) : result[u].status \in StatusTags
                  /\ download_stats.total = Len(items)
                  /\ Malformed \subseteq Tagged({"error"})
                  /\ download_stats.fail >= Cardinality(Malformed))

MalformedWitness ==
    /\ mpc = "returned"
    /\ Malformed /= {}
    /\ \E u \in Tasks(items) : result[u].status = "success"
    /\ download_stats = [total |-> 2, success |-> 1, fail |-> 1]

\* C10: at most THREADS_CN = 4 calls are in progress at any moment, each on
\* a pool thread of its own, and a pool thread changes what it runs only by
\* taking a queued item when idle or by finishing the call it runs.
InProgress == {t \in Tasks(items) : Started(t)}

WorkerStep(w) ==
    worker'[w] /= worker[w] =>
        \/ worker[w] = 0 /\ pc[worker'[w]] = "queued" /\ pc'[worker'[w]] = "split"
        \/ worker[w] /= 0 /\ worker'[w] = 0 /\ pc'[worker[w]] = "done"

BoundedConcurrency ==
    /\ [][\A w \in 1..THREADS_CN : WorkerStep(w)]_vars
    /\ [](/\ Cardinality(InProgress) <= THREADS_CN
          /\ \A t \in InProgress : Cardinality({w \in 1..THREADS_CN : worker[w] = t}) = 1
          /\ \A w \in 1..THREADS_CN : worker[w] /= 0 => worker[w] \in InProgress)

BoundedConcurrencyWitness ==
    /\ Cardinality(InProgress) = THREADS_CN
    /\ queue /= <<>>

\* C11: the four counters change only in the as_completed loop of main, one
\* future at a time: a step that changes them adds exactly one to the counter
\* of the tag of one finished, not yet tallied call and changes no call; no
\* increment is lost, the counters sum to the number of futures tallied, and
\* when main returns to the number of items submitted.
CounterSum == stats["success"] + stats["exists"] + stats["empty"] + stats["error"]

TallyStep ==
    stats' /= stats =>
        /\ mpc = "collect" /\ mpc' = "collect"
        /\ pc' = pc /\ result' = result /\ ev' = ev /\ worker' = worker
        /\ \E t \in Tasks(items) \ collected :
              /\ pc[t] = "done"
              /\ collected' = collected \cup {t}
              /\ stats' = [stats EXCEPT ![result[t].status] = @ + 1]

CountersUntorn ==
    /\ [][TallyStep]_vars
    /\ [](/\ CounterSum = Cardinality(collected)
          /\ mpc = "returned" => CounterSum = Len(items) /\ CounterSum = submitted)

CountersUntornWitness ==
    /\ mpc = "returned"
    /\ Len(items) > THREADS_CN
    /\ CounterSum = Len(items)
    /\ stats["error"] >= 2
    /\ stats["exists"] >= 2

\* C12: under fair scheduling of main and of the pool every run terminates:
\* eventually main has returned its report, every submitted item has produced
\* a result with one of the four tags, and no call made more than
\* max_retries = 3 fetch attempts, whatever was raised while fetching,
\* writing or parsing.
Terminated ==
    /\ mpc = "returned"
    /\ download_stats.total = Len(items)
    /\ \A t \in Tasks(items) :
          /\ pc[t] = "done"
          /\ result[t].status \in StatusTags
          /\ ev[t].fetch <= max_retries

RunTerminates == <>Terminated

RunTerminatesWitness ==
    /\ Terminated
    /\ \E t \in Tasks(items) :
          /\ ev[t].fetch = max_retries
          /\ ev[t].write >= 1
          /\ ev[t].last = "raised"
          /\ result[t].status = "error"
    /\ \E u \in Tasks(items) : ~HasAmp(items[u]) /\ result[u].status = "error"

\* C13 as stated: a step of the call of one item, whatever it fetches, writes
\* or raises, leaves alone the artifact of every other well-formed item of the
\* same run.
OthersUntouched ==
    [][\A t \in Tasks(items) : \A u \in Tasks(items) \ {t} :
          (HasAmp(items[u]) /\ (pc'[t] /= pc[t] \/ ev'[t] /= ev[t]))
              => files'[PathOf(u)] = files[PathOf(u)]]_vars

\* C14 as stated: the report depends neither on the order of the input nor on
\* when a call runs or finishes, so it is fixed by the artifacts the run
\* began with and by what each fetch returns: an item whose artifact was fresh
\* and large enough when the run began, and is untouched when main returns,
\* is counted under success, and an item is tagged exists only on account of
\* an artifact from before the run.
WasFresh(t) ==
    /\ files[PathOf(t)].exists
    /\ files[PathOf(t)].content = <<0, 0>>
    /\ Now0 - files[PathOf(t)].mtime < DATA_EXPIRY_SECONDS
    /\ files[PathOf(t)].size > MIN_VALID_SIZE

ScheduleFreeReport ==
    mpc = "returned" =>
        \A t \in Tasks(items) :
            HasAmp(items[t]) =>
                /\ WasFresh(t) => result[t].status \in {"exists", "success"}
                /\ result[t].status = "exists" => files[PathOf(t)].content = <<0, 0>>

\* C15: a call whose fetch attempts all return no rows never writes, makes
\* all max_retries attempts and returns empty with the artifact as the run
\* found it; in the following run the same item is never answered exists:
\* its call goes past the freshness test and fetches at least once.
AllEmpty(t) == ev[t].fetch >= 1 /\ ev[t].only_empty

EmptyNotCached ==
    \A t \in Tasks(items) :
        /\ AllEmpty(t) =>
              /\ ev[t].write = 0
              /\ pc[t] = "done" =>
                    /\ result[t].status = "empty"
                    /\ ev[t].fetch = max_retries
                    /\ files[PathOf(t)].content = <<0, 0>>
        /\ (prev[t].status = "empty" /\ prev[t].only_empty) =>
              /\ result[t].status /= "exists"
              /\ pc[t] = "done" => ev[t].fetch >= 1

EmptyNotCachedWitness ==
    \E t \in Tasks(items) :
        /\ prev[t].status = "empty"
        /\ prev[t].only_empty
        /\ pc[t] = "done"
        /\ AllEmpty(t)
        /\ result[t].status = "empty"
        /\ now = Now0

\* C16: an identifier with at least one '&' is cut at its first '&': the
\* code is the text before it, with no '&' in it, the name all the text
\* after it, and the one artifact path of the call is code, "_", name, ".csv".
CutAtFirstAmp(item, i) ==
    /\ item[i] = "&"
    /\ \A j \in 1..(i - 1) : item[j] /= "&"

SplitOnFirstAmp ==
    \A t \in Tasks(items) :
        (HasAmp(items[t]) /\ pc[t] = "done") =>
            \E i \in 1..Len(items[t]) :
                /\ CutAtFirstAmp(items[t], i)
                /\ result[t].code = SubSeq(items[t], 1, i - 1)
                /\ DOMAIN files = {SubSeq(items[t], 1, i - 1) \o <<"_">>
                                      \o SubSeq(items[t], i + 1, Len(items[t]))
                                      \o <<".csv">>}
                /\ result[t].status = "success" =>
                      files[SubSeq(items[t], 1, i - 1) \o <<"_">>
                               \o SubSeq(items[t], i + 1, Len(items[t]))
                               \o <<".csv">>].content[1] = t

SplitOnFirstAmpWitness ==
    \E t \in Tasks(items) :
        /\ items[t] = <<"6", "&", "&">>
        /\ result[t] = [status |-> "success", code |-> <<"6">>]
        /\ files[<<"6", "_", "&", ".csv">>].complete
        /\ files[<<"6", "_", "&", ".csv">>].content[1] = t

\* C17: a call that ends after max_retries attempts without a written
\* artifact returns empty exactly when its last attempt returned no rows and
\* error exactly when its last attempt raised, whatever the earlier attempts
\* did.
Exhausted(t) ==
    /\ pc[t] = "done"
    /\ ev[t].fetch = max_retries
    /\ ev[t].last /= "written"

LastAttemptDecides ==
    \A t \in Tasks(items) :
        /\ Exhausted(t) =>
              /\ ev[t].last \in {"norows", "raised"}
              /\ ev[t].last = "norows" => result[t].status = "empty"
              /\ ev[t].last = "raised" => result[t].status = "error"
        /\ result[t].status = "empty" => Exhausted(t) /\ ev[t].last = "norows"

LastAttemptDecidesWitness ==
    \E t \in Tasks(items) :
        /\ Exhausted(t)
        /\ ev[t].backoff = max_retries - 1
        /\ ev[t].last = "norows"
        /\ result[t].status = "empty"

\* C18: every fetch follows one jitter sleep of the same call on the same
\* pool thread, with nothing of that call in between; the call sleeps the
\* backoff only after an attempt that raised and was not the last, and always
\* then; a non-final attempt that returned no rows goes on to the jitter of
\* the next attempt with no backoff.
EndsAttempt(t) == pc[t] \in {"fetch", "open", "body"} /\ pc'[t] \notin {"fetch", "open", "body"}

SleepStep(t) ==
    /\ ev'[t].fetch /= ev[t].fetch =>
          /\ pc[t] = "fetch"
          /\ ev'[t].fetch = ev[t].fetch + 1
          /\ ev[t].jitter = ev[t].fetch + 1
    /\ (pc'[t] = "fetch" /\ pc[t] /= "fetch") =>
          /\ pc[t] = "jitter"
          /\ ev'[t].jitter = ev[t].jitter + 1
          /\ \A w \in 1..THREADS_CN : worker[w] = t <=> worker'[w] = t
    /\ ev'[t].jitter /= ev[t].jitter => pc[t] = "jitter" /\ pc'[t] = "fetch"
    /\ ev'[t].backoff /= ev[t].backoff =>
          /\ pc[t] = "backoff"
          /\ ev'[t].backoff = ev[t].backoff + 1
          /\ ev[t].last = "raised"
          /\ ev[t].fetch < max_retries
          /\ pc'[t] = "jitter"
    /\ pc'[t] = "backoff" => pc[t] = "backoff" \/ (EndsAttempt(t) /\ ev'[t].last = "raised")
    /\ (EndsAttempt(t) /\ ev'[t].last = "raised" /\ ev'[t].fetch < max_retries) =>
          pc'[t] = "backoff"
    /\ (EndsAttempt(t) /\ ev'[t].last = "norows" /\ ev'[t].fetch < max_retries) =>
          pc'[t] = "jitter" /\ ev'[t].backoff = ev[t].backoff

JitterBeforeFetch ==
    /\ [][\A t \in Tasks(items) : SleepStep(t)]_vars
    /\ [](\A t \in Tasks(items) :
             /\ ev[t].jitter = ev[t].fetch + (IF pc[t] = "fetch" THEN 1 ELSE 0)
             /\ ev[t].backoff <= max_retries - 1
             /\ pc[t] = "backoff" => ev[t].last = "raised" /\ ev[t].fetch < max_retries)

JitterBeforeFetchWitness ==
    \E t \in Tasks(items) :
        /\ pc[t] = "fetch"
        /\ ev[t].last = "norows"
        /\ ev[t].fetch = 1
        /\ ev[t].jitter = 2
        /\ ev[t].backoff = 0

\* C19: a call fetches at most max_retries = 3 times; the step that writes
\* the whole table ends the call with success, and nothing of the call
\* happens afterwards; success is returned by that step only, so only with
\* the artifact written in the attempt just made: all the bytes of the table
\* of that attempt are in the file from its start, and the file is exactly
\* that table unless bytes of another handle lay beyond them.
WroteWhole(t) ==
    /\ pc[t] = "body"
    /\ hist_size[t] > 0
    /\ files'[PathOf(t)].exists
    /\ files'[PathOf(t)].mtime = now
    /\ files'[PathOf(t)].content = <<t, attempt[t] + 1>>
    /\ files'[PathOf(t)].size >= hist_size[t]
    /\ files[PathOf(t)].size <= hist_size[t] =>
          files'[PathOf(t)].size = hist_size[t] /\ files'[PathOf(t)].complete

PersistStep(t) ==
    /\ (pc[t] = "body" /\ pc'[t] /= "body" /\ ev'[t].last = "written") =>
          /\ WroteWhole(t)
          /\ pc'[t] = "done"
          /\ result'[t].status = "success"
    /\ (result'[t].status = "success" /\ result[t].status /= "success") =>
          /\ WroteWhole(t)
          /\ ev'[t].last = "written"
          /\ ev'[t].fetch = attempt[t] + 1
    /\ pc[t] = "done" => pc'[t] = "done" /\ ev'[t] = ev[t] /\ result'[t] = result[t]

StopsAtFirstPersist ==
    /\ [][\A t \in Tasks(items) : PersistStep(t)]_vars
    /\ [](\A t \in Tasks(items) :
             /\ ev[t].fetch <= max_retries
             /\ ev[t].last = "written" <=> result[t].status = "success"
             /\ ev[t].last = "written" => pc[t] = "done")

StopsAtFirstPersistWitness ==
    /\ mpc = "returned"
    /\ \E t \in Tasks(items) :
          /\ result[t].status = "success"
          /\ ev[t].fetch = 2
          /\ ev[t].backoff = 1
          /\ ev[t].write = 2
          /\ files[PathOf(t)].content = <<t, 2>>

\* C20 as stated: an item that ended with success in the previous run, with
\* the artifact left as that run wrote it, is answered exists without a fetch
\* in a run that follows within the expiry window, whatever the size of the
\* file written.
LeftAsWritten(t) ==
    /\ prev[t].status = "success"
    /\ files[PathOf(t)].content = <<0, 0>>
    /\ now - files[PathOf(t)].mtime < DATA_EXPIRY_SECONDS

AnsweredFromDisk(t) ==
    /\ ev[t].fetch = 0
    /\ ev[t].jitter = 0
    /\ pc[t] \notin {"jitter", "fetch", "open", "body", "backoff"}
    /\ pc[t] = "done" => result[t].status = "exists"

SecondRunExists ==
    \A t \in Tasks(items) : LeftAsWritten(t) => AnsweredFromDisk(t)

\* C20: an item that ended with success in the previous run, with the
\* artifact left as that run wrote it and larger than MIN_VALID_SIZE = 1000
\* bytes, is answered exists without a fetch in a run that follows within the
\* expiry window.
SecondRunExistsIfLarge ==
    \A t \in Tasks(items) :
        (LeftAsWritten(t) /\ prev[t].size > MIN_VALID_SIZE) => AnsweredFromDisk(t)

SecondRunExistsWitness ==
    \E t \in Tasks(items) :
        /\ LeftAsWritten(t)
        /\ prev[t].size > MIN_VALID_SIZE
        /\ files[PathOf(t)].size = prev[t].size
        /\ pc[t] = "done"
        /\ result[t].status = "exists"
        /\ mpc = "returned"

====
